---- MODULE Spec2Model ----
(***************************************************************************)
(* Face-identity pipeline of the wedding gallery: the Face                 *)
(* Detector/Encoder (face_processor.py), the Cache Store                   *)
(* (cache_manager.py), the processing script (process_faces_locally.py)    *)
(* and the gallery consumer (app.py), as one state machine.                *)
(*                                                                         *)
(* Processes:                                                              *)
(*   proc  the producer: lists the photos, runs detect_faces photo by      *)
(*         photo, clusters, assembles the dataset and writes the cache     *)
(*         (CacheManager.save_cache, or the script's own open/dump), or    *)
(*         clears the cache;                                               *)
(*   rd    a consumer: load_cache (exists check, then open and unpickle),  *)
(*         is_cache_valid, and the gallery's load_faces_from_cache;        *)
(*   the environment, which adds, removes and renames files of the photo   *)
(*         folder;                                                         *)
(*   names the identity mapping, the content of person_names.json.         *)
(***************************************************************************)
EXTENDS Integers, Sequences, FiniteSets, TLC

VARIABLES storage, names, folder, cache, proc, rd

vars == <<storage, names, folder, cache, proc, rd>>

(***************************************************************************)
(* Bounds of the model.                                                    *)
(***************************************************************************)
\* Most faces face_recognition finds in one photo.
MaxFaces == 2
\* Most photos in an input list of detect_faces under SpecDetect.
MaxPhotos == 3
\* Pickle tokens the buffered file object holds back before it flushes.
BufferSize == 3

(***************************************************************************)
(* Configuration (config.py).                                              *)
(***************************************************************************)
PHOTOS_FOLDER == "wedding_photos"
IMAGE_EXTENSIONS == {".jpg", ".jpeg", ".png", ".webp", ".bmp"}
\* config.TOLERANCE = 0.6, in tenths: embeddings are integers in tenths.
TOLERANCE == 6

(***************************************************************************)
(* Python values.                                                          *)
(***************************************************************************)
None == [py |-> "None"]

Min(a, b) == IF a < b THEN a ELSE b

Abs(x) == IF x < 0 THEN -x ELSE x

Range(s) == {s[i] : i \in 1..Len(s)}

\* person_names.json missing or holding {}: load_person_names gives {}.
NoNames == [k \in {} |-> <<>>]

(***************************************************************************)
(* The photo folder: file names, os.path.splitext, str.lower,              *)
(* os.path.join.                                                           *)
(***************************************************************************)
FileNames == {"a.jpg", "b.JPG", "n.txt"}

\* os.path.splitext(filename)[1]
splitext_ext(filename) ==
    CASE filename = "a.jpg" -> ".jpg"
      [] filename = "b.JPG" -> ".JPG"
      [] filename = "n.txt" -> ".txt"
      [] filename = "u1.jpg" -> ".jpg"
      [] filename = "u2.jpg" -> ".jpg"
      [] OTHER -> ""

\* Mutant: the extension is compared as it is written.
lower_missing(s) == s

\* str.lower() on the extensions that occur
lower(s) ==
    CASE s = ".JPG" -> ".jpg"
      [] OTHER -> s

\* os.path.join(folder_path, filename): a path is <<directory, name>>
path_join(folder_path, filename) == <<folder_path, filename>>

\* The URLs of cloudinary_urls.txt, in file order.
UrlPrefix == "https://res.cloudinary.com"
cloudinary_urls == << <<UrlPrefix, "u1.jpg">>, <<UrlPrefix, "u2.jpg">> >>

\* The supported entries of a listing, as the loops of _list_local_photos
\* and is_cache_valid collect them.
supported_photos(folder_path, listing) ==
    {path_join(folder_path, filename) :
        filename \in {f \in listing : lower(splitext_ext(f)) \in IMAGE_EXTENSIONS}}

\* sorted(paths): ascending by name (the directory is common).
NameRank(name) ==
    CASE name = "a.jpg" -> 1
      [] name = "b.JPG" -> 2
      [] name = "n.txt" -> 3
      [] name = "u1.jpg" -> 4
      [] name = "u2.jpg" -> 5
      [] OTHER -> 6

RECURSIVE sorted(_)
sorted(S) ==
    IF S = {} THEN <<>>
    ELSE LET m == CHOOSE x \in S : \A y \in S : NameRank(x[2]) <= NameRank(y[2])
         IN <<m>> \o sorted(S \ {m})

\* StorageManager._list_local_photos: raises ValueError when the folder is
\* missing, else the sorted supported paths.
list_local_photos(fld) ==
    IF ~fld.exists THEN [raised |-> TRUE, photos |-> <<>>]
    ELSE [raised |-> FALSE, photos |-> sorted(supported_photos(PHOTOS_FOLDER, fld.files))]

(***************************************************************************)
(* StorageManager: the backend, the URL-list file, the cloud service and   *)
(* one call of list_photos.                                                *)
(***************************************************************************)
\* config.STORAGE_BACKEND
STORAGE_BACKEND == "cloudinary"
\* config.S3_BASE_URL
S3_BASE_URL == "https://your-bucket-name.s3.us-east-1.amazonaws.com"

\* No cloudinary_urls.txt.
NoUrlList == [exists |-> FALSE, lines |-> <<>>]

\* The StorageManager of config.py before a call: no URL-list file, the
\* cloud service answering with no resources.
IdleStorage ==
    [backend |-> STORAGE_BACKEND, url_list |-> NoUrlList, api |-> "ok", remote |-> {},
     pc |-> "idle", photos |-> <<>>, error |-> "none"]

\* str.strip() on the lines and names that occur: blanks off both ends.
RECURSIVE strip(_)
strip(s) ==
    IF s = <<>> THEN s
    ELSE IF Head(s) = " " THEN strip(Tail(s))
    ELSE IF s[Len(s)] = " " THEN strip(SubSeq(s, 1, Len(s) - 1))
    ELSE s

\* [line.strip() for line in f if line.strip()]
RECURSIVE stripped_lines(_)
stripped_lines(lines) ==
    IF lines = <<>> THEN <<>>
    ELSE (IF strip(Head(lines)) # <<>> THEN <<strip(Head(lines))>> ELSE <<>>)
         \o stripped_lines(Tail(lines))

\* StorageManager._list_cloudinary_photos: the URL-list file if it exists;
\* else the API, and on any exception (the package missing, no keys, no
\* network) the message is printed and [] returned.
list_cloudinary_photos(st) ==
    IF st.url_list.exists
    THEN [raised |-> FALSE, error |-> "none",
          photos |-> sorted(Range(stripped_lines(st.url_list.lines)))]
    ELSE IF st.api # "ok"
    THEN [raised |-> FALSE, error |-> "none", photos |-> <<>>]
    ELSE [raised |-> FALSE, error |-> "none",
          photos |-> sorted({<<UrlPrefix, r>> : r \in st.remote})]

\* StorageManager._list_s3_photos: the client is made outside the try
\* (ImportError propagates); an exception of the listing is printed and []
\* returned; else the sorted URLs of the keys with a supported extension.
list_s3_photos(st) ==
    IF st.api = "not_installed"
    THEN [raised |-> TRUE, error |-> "boto3 not installed", photos |-> <<>>]
    ELSE IF st.api # "ok"
    THEN [raised |-> FALSE, error |-> "none", photos |-> <<>>]
    ELSE [raised |-> FALSE, error |-> "none",
          photos |-> sorted(supported_photos(S3_BASE_URL, st.remote))]

\* StorageManager.list_photos
list_photos(st, fld) ==
    IF st.backend = "local"
    THEN LET r == list_local_photos(fld)
         IN [raised |-> r.raised,
             error |-> IF r.raised THEN "Folder not found" ELSE "none",
             photos |-> r.photos]
    ELSE IF st.backend = "cloudinary" THEN list_cloudinary_photos(st)
    ELSE IF st.backend = "s3" THEN list_s3_photos(st)
    ELSE [raised |-> TRUE, error |-> "Unsupported storage backend", photos |-> <<>>]

\* One call of list_photos, to its return or its exception.
list_photos_call ==
    /\ storage.pc = "idle"
    /\ LET r == list_photos(storage, folder)
       IN storage' = [storage EXCEPT
              !.pc = IF r.raised THEN "raised" ELSE "returned",
              !.photos = r.photos,
              !.error = r.error]
    /\ UNCHANGED <<names, folder, cache, proc, rd>>

(***************************************************************************)
(* What face_recognition finds in a photo.  The j-th face of a photo has   *)
(* the bounding box j and an embedding fixed by the photo; how many faces  *)
(* a photo shows, and whether it can be read at all, is the environment's. *)
(***************************************************************************)
EncBase(image_path) ==
    CASE image_path[2] = "a.jpg" -> 0
      [] image_path[2] = "b.JPG" -> 5
      [] image_path[2] = "u1.jpg" -> 10
      [] image_path[2] = "u2.jpg" -> 20
      [] OTHER -> 30

\* face_recognition.face_locations: n boxes
face_locations(n) == [j \in 1..n |-> j]

\* face_recognition.face_encodings: one embedding per box
face_encodings(image_path, locations) ==
    [j \in 1..Len(locations) |-> EncBase(image_path) + (locations[j] - 1)]

FailStages == {"fetch", "decode", "detect", "encode"}

(***************************************************************************)
(* pickle: the byte stream as a sequence of opcodes.                       *)
(***************************************************************************)
\* Key order of the cache_data literal (a dict keeps insertion order).
CacheKeys == <<"face_encodings", "face_to_photo_map", "cluster_labels",
               "total_photos", "total_faces">>

IsKeyOf(data, k) == k \in DOMAIN data

KeysOf(data) == SelectSeq(CacheKeys, LAMBDA k : IsKeyOf(data, k))

\* Mutant: the last item of the dict is not written.
pickle_dump_short(data) ==
    LET ks == KeysOf(data)
    IN <<[op |-> "PROTO"], [op |-> "EMPTY_DICT"]>>
       \o [i \in 1..(Len(ks) - 1) |-> [op |-> "SETITEM", key |-> ks[i], val |-> data[ks[i]]]]
       \o <<[op |-> "STOP"]>>

\* pickle.dump(data, f, protocol=HIGHEST_PROTOCOL): PROTO, the dict, STOP
pickle_dump(data) ==
    LET ks == KeysOf(data)
    IN <<[op |-> "PROTO"], [op |-> "EMPTY_DICT"]>>
       \o [i \in 1..Len(ks) |-> [op |-> "SETITEM", key |-> ks[i], val |-> data[ks[i]]]]
       \o <<[op |-> "STOP"]>>

UnpickleError == [ok |-> FALSE]

\* The unpickler's loop: reads opcodes from position i; `stack` is <<>> or
\* holds the dict under construction.  Running out of input raises EOFError,
\* an opcode out of place raises UnpicklingError.
RECURSIVE unpickle(_, _, _)
unpickle(bytes, i, stack) ==
    IF i > Len(bytes) THEN UnpickleError
    ELSE LET t == bytes[i]
         IN CASE t.op = "PROTO" ->
                    IF i = 1 THEN unpickle(bytes, i + 1, stack) ELSE UnpickleError
              [] t.op = "EMPTY_DICT" ->
                    unpickle(bytes, i + 1, << <<>> >>)
              [] t.op = "SETITEM" ->
                    IF stack = <<>> THEN UnpickleError
                    ELSE unpickle(bytes, i + 1, <<stack[1] @@ (t.key :> t.val)>>)
              [] t.op = "STOP" ->
                    IF stack = <<>> THEN UnpickleError
                    ELSE [ok |-> TRUE, val |-> stack[1]]
              [] OTHER -> UnpickleError

\* pickle.load(f)
pickle_load(bytes) == unpickle(bytes, 1, <<>>)

(***************************************************************************)
(* The cache file.                                                         *)
(***************************************************************************)
NoFile == [exists |-> FALSE, bytes |-> <<>>]

\* open(cache_file, 'wb'): creates or truncates
open_wb(file) == [exists |-> TRUE, bytes |-> <<>>]

\* The next flush of the buffered writer: up to BufferSize opcodes of the
\* stream, after the `written` already in the file.
next_chunk(stream, written) ==
    SubSeq(stream, written + 1, Min(Len(stream), written + BufferSize))

\* os.path.exists(cache_file)
path_exists(file) == file.exists

\* CacheManager.load_cache on a file that does not change under it.
load_cache(file) ==
    IF ~path_exists(file) THEN None
    ELSE LET r == pickle_load(file.bytes)
         IN IF r.ok THEN r.val ELSE None

(***************************************************************************)
(* FaceProcessor.cluster_faces: DBSCAN(eps=config.TOLERANCE, min_samples=1, *)
(* metric='euclidean').  With min_samples = 1 every point is a core point, *)
(* so DBSCAN visits the points in index order, gives the first unlabelled  *)
(* one the next label and spreads that label over everything reachable     *)
(* through neighbours at distance <= eps.                                  *)
(***************************************************************************)
distance(a, b) == Abs(a - b)

\* Mutant: the neighbourhood is open (distance < eps).
neighbours_strict(encodings, eps, i) ==
    {j \in 1..Len(encodings) : distance(encodings[i], encodings[j]) < eps}

\* Mutant: the neighbourhood has twice the radius.
neighbours_double_eps(encodings, eps, i) ==
    {j \in 1..Len(encodings) : distance(encodings[i], encodings[j]) <= 2 * eps}

\* The eps-neighbourhood query: indexes within eps of point i (i included).
neighbours(encodings, eps, i) ==
    {j \in 1..Len(encodings) : distance(encodings[i], encodings[j]) <= eps}

\* Mutant: the expansion stops at the neighbours of the first point.
expand_one_hop(encodings, eps, seen) ==
    seen \cup UNION {neighbours(encodings, eps, i) : i \in seen}

\* The cluster expansion: the indexes reachable from `seen` through neighbours.
RECURSIVE expand(_, _, _)
expand(encodings, eps, seen) ==
    LET more == UNION {neighbours(encodings, eps, i) : i \in seen}
    IN IF more \subseteq seen THEN seen ELSE expand(encodings, eps, seen \cup more)

\* Mutant: min_samples = 2, a point with no neighbour but itself is left
\* with the noise label -1.
RECURSIVE dbscan_min_samples_2(_, _, _, _, _)
dbscan_min_samples_2(encodings, eps, i, labels, next) ==
    IF i > Len(encodings) THEN labels
    ELSE IF labels[i] # -1 \/ expand(encodings, eps, {i}) = {i}
         THEN dbscan_min_samples_2(encodings, eps, i + 1, labels, next)
    ELSE LET members == expand(encodings, eps, {i})
         IN dbscan_min_samples_2(encodings, eps, i + 1,
                   [j \in 1..Len(encodings) |-> IF j \in members THEN next ELSE labels[j]],
                   next + 1)

\* The main loop of DBSCAN from point i with `labels` so far (-1: unvisited)
\* and `next` the next label to give.
RECURSIVE dbscan(_, _, _, _, _)
dbscan(encodings, eps, i, labels, next) ==
    IF i > Len(encodings) THEN labels
    ELSE IF labels[i] # -1 THEN dbscan(encodings, eps, i + 1, labels, next)
    ELSE LET members == expand(encodings, eps, {i})
         IN dbscan(encodings, eps, i + 1,
                   [j \in 1..Len(encodings) |-> IF j \in members THEN next ELSE labels[j]],
                   next + 1)

\* DBSCAN(eps=eps, min_samples=1, metric='euclidean').fit(encodings): the
\* library raises ValueError on an input without samples and on an eps that
\* is not positive ("eps must be positive"); else labels_ is set.
DBSCAN_fit(encodings, eps) ==
    IF Len(encodings) = 0 \/ eps <= 0
    THEN [raised |-> TRUE, labels |-> <<>>]
    ELSE [raised |-> FALSE,
          labels |-> dbscan(encodings, eps, 1, [j \in 1..Len(encodings) |-> -1], 0)]

\* Mutant: the labels are returned without repetition (one per cluster).
cluster_faces_unique(encodings, eps) ==
    IF Len(encodings) = 0 THEN [raised |-> FALSE, labels |-> <<>>]
    ELSE LET r == DBSCAN_fit(encodings, eps)
         IN [raised |-> r.raised,
             labels |-> [k \in 1..Cardinality(Range(r.labels)) |-> k - 1]]

\* Mutant: no guard for the empty list, DBSCAN is fitted on whatever comes.
cluster_faces_unguarded(encodings, eps) == DBSCAN_fit(encodings, eps)

\* FaceProcessor.cluster_faces(encodings), with eps the value of
\* config.TOLERANCE; the script's clustering block has the same guard.
cluster_faces(encodings, eps) ==
    IF Len(encodings) = 0 THEN [raised |-> FALSE, labels |-> <<>>]
    ELSE DBSCAN_fit(encodings, eps)

(***************************************************************************)
(* get_person_clusters (face_processor.py, app.py, admin_labeling.py): the *)
(* dict cluster_id -> list of face indices, as the sequence of its items   *)
(* in dict order.  Face indices count from 0, as enumerate gives them.     *)
(***************************************************************************)
\* Mutant: each index is put at the front of its list.
cluster_members_newest_first(cluster_labels, cluster_id) ==
    SelectSeq([i \in 1..Len(cluster_labels) |-> Len(cluster_labels) - i],
              LAMBDA face_idx : cluster_labels[face_idx + 1] = cluster_id)

\* person_clusters[cluster_id] after the loop: the indices in ascending order.
cluster_members(cluster_labels, cluster_id) ==
    SelectSeq([i \in 1..Len(cluster_labels) |-> i - 1],
              LAMBDA face_idx : cluster_labels[face_idx + 1] = cluster_id)

\* The position at which the loop inserts the key cluster_id.
first_seen(cluster_labels, cluster_id) ==
    CHOOSE i \in 1..Len(cluster_labels) :
        /\ cluster_labels[i] = cluster_id
        /\ \A j \in 1..(i - 1) : cluster_labels[j] # cluster_id

\* sorted(items, key=len of the list, reverse=True): largest first; the sort
\* is stable, so clusters of one size stay in insertion order.
RECURSIVE sorted_by_size(_, _)
sorted_by_size(cluster_labels, ids) ==
    IF ids = {} THEN <<>>
    ELSE LET size(c) == Len(cluster_members(cluster_labels, c))
             m == CHOOSE c \in ids : \A d \in ids :
                     \/ size(c) > size(d)
                     \/ /\ size(c) = size(d)
                        /\ first_seen(cluster_labels, c) <= first_seen(cluster_labels, d)
         IN <<[cluster_id |-> m, faces |-> cluster_members(cluster_labels, m)]>>
            \o sorted_by_size(cluster_labels, ids \ {m})

\* Mutant: clusters of a single face are left out.
get_person_clusters_drops_singletons(cluster_labels) ==
    sorted_by_size(cluster_labels,
                   {c \in Range(cluster_labels) :
                       Len(cluster_members(cluster_labels, c)) > 1})

get_person_clusters(cluster_labels) ==
    sorted_by_size(cluster_labels, Range(cluster_labels))

(***************************************************************************)
(* The identity mapping as the gallery reads it (app.py).  A name is a     *)
(* Python str, modelled as the tuple of its characters; the mapping is a   *)
(* function from the keys of person_names.json (str of a cluster id) to    *)
(* names.                                                                  *)
(***************************************************************************)
\* str.lower(), character by character, on the characters that occur.
lower_char(c) ==
    CASE c = "A" -> "a"
      [] c = "I" -> "i"
      [] c = "K" -> "k"
      [] c = "N" -> "n"
      [] c = "P" -> "p"
      [] c = "S" -> "s"
      [] OTHER -> c

str_lower(s) == [i \in 1..Len(s) |-> lower_char(s[i])]

\* sub in s
contains(s, sub) ==
    \E k \in 0..(Len(s) - Len(sub)) : SubSeq(s, k + 1, k + Len(sub)) = sub

\* The characters in code point order, and str comparison (<=).
Alphabet == <<" ", "?", "A", "I", "K", "N", "P", "S",
              "a", "b", "d", "e", "h", "i", "k", "l", "n", "o", "p", "r", "s",
              "t", "v", "w">>

ord(c) == CHOOSE i \in 1..Len(Alphabet) : Alphabet[i] = c

RECURSIVE str_le(_, _)
str_le(a, b) ==
    IF a = <<>> THEN TRUE
    ELSE IF b = <<>> THEN FALSE
    ELSE IF a[1] = b[1] THEN str_le(Tail(a), Tail(b))
    ELSE ord(a[1]) < ord(b[1])

\* str(person_id): the decimal numeral of an int.
str(person_id) == ToString(person_id)

\* The ints whose numerals occur as keys of person_names.json.
IdRange == (-1010..-990) \cup (-10..10)

\* int(pid) on the key of a mapping: the int with that numeral.
int(pid) == CHOOSE n \in IdRange : str(n) = pid

\* A str value, as against None.
Str(s) == [py |-> "str", s |-> s]

\* The list in get_person_name: ['skip', 'sk', '???', 'this one is blank'].
skip_names ==
    {<<"s", "k", "i", "p">>,
     <<"s", "k">>,
     <<"?", "?", "?">>,
     <<"t", "h", "i", "s", " ", "o", "n", "e", " ", "i", "s", " ",
       "b", "l", "a", "n", "k">>}

\* person_names.get(key, "")
names_get(person_names, key) ==
    IF key \in DOMAIN person_names THEN person_names[key] ELSE <<>>

\* Mutant: every name that is not empty is returned.
get_person_name_unfiltered(person_id, person_names) ==
    LET name == names_get(person_names, str(person_id))
    IN IF name = <<>> THEN None ELSE Str(name)

\* app.get_person_name(person_id, person_names)
get_person_name(person_id, person_names) ==
    LET name == names_get(person_names, str(person_id))
    IN IF name = <<>> \/ str_lower(name) \in skip_names THEN None ELSE Str(name)

\* Mutant: the selector does not look at the sign of the cluster id.
RECURSIVE valid_people_with_noise(_, _)
valid_people_with_noise(person_clusters, person_names) ==
    IF person_clusters = <<>> THEN <<>>
    ELSE LET pid == Head(person_clusters).cluster_id
             name == get_person_name(pid, person_names)
             rest == valid_people_with_noise(Tail(person_clusters), person_names)
         IN IF name # None
            THEN <<[pid |-> pid, faces |-> Head(person_clusters).faces,
                    name |-> name.s]>> \o rest
            ELSE rest

\* Lines 206-211 of display_face_selector: the clusters with pid >= 0 and a
\* name, in person_clusters order.
RECURSIVE valid_people(_, _)
valid_people(person_clusters, person_names) ==
    IF person_clusters = <<>> THEN <<>>
    ELSE LET pid == Head(person_clusters).cluster_id
             name == get_person_name(pid, person_names)
             rest == valid_people(Tail(person_clusters), person_names)
         IN IF pid >= 0 /\ name # None
            THEN <<[pid |-> pid, faces |-> Head(person_clusters).faces,
                    name |-> name.s]>> \o rest
            ELSE rest

\* Lines 214-217: the search filter, query_lower in name.lower().
search_filter(people, search_query) ==
    IF search_query = <<>> THEN people
    ELSE SelectSeq(people,
                   LAMBDA p : contains(str_lower(p.name), str_lower(search_query)))

\* Line 220: list.sort(key=name.lower()); the sort is stable.
RECURSIVE sort_by_name(_)
sort_by_name(people) ==
    IF people = <<>> THEN <<>>
    ELSE LET m == CHOOSE i \in 1..Len(people) :
                     /\ \A j \in 1..Len(people) :
                           str_le(str_lower(people[i].name), str_lower(people[j].name))
                     /\ \A j \in 1..(i - 1) :
                           ~str_le(str_lower(people[j].name), str_lower(people[i].name))
         IN <<people[m]>> \o
            sort_by_name(SubSeq(people, 1, m - 1) \o SubSeq(people, m + 1, Len(people)))

\* The numbers load_faces_from_cache computes (lines 139-149).
gallery_counts(person_clusters, person_names) ==
    LET ids == {person_clusters[k].cluster_id : k \in 1..Len(person_clusters)}
        noise == CHOOSE k \in 1..Len(person_clusters) :
                     person_clusters[k].cluster_id = -1
    IN [noise_count |-> IF -1 \in ids THEN Len(person_clusters[noise].faces) ELSE 0,
        unique_people |-> IF -1 \in ids THEN Len(person_clusters) - 1
                          ELSE Len(person_clusters),
        named_count |-> Cardinality({pid \in ids :
                            pid >= 0 /\ get_person_name(pid, person_names) # None})]

\* admin_labeling.main, line 259: the clusters with pid >= 0.
admin_valid_people(person_clusters) ==
    SelectSeq(person_clusters, LAMBDA item : item.cluster_id >= 0)

\* admin_labeling.main, line 260: the clusters of valid_people with a key
\* in person_names.
labeled_count(people, person_names) ==
    Len(SelectSeq(people, LAMBDA item : str(item.cluster_id) \in DOMAIN person_names))

\* The script's count, len(set(cluster_labels)).
unique_people(cluster_labels) == Cardinality(Range(cluster_labels))

(***************************************************************************)
(* FaceProcessor.detect_faces, one photo of the loop.                      *)
(***************************************************************************)
\* The photos read without error show 0..MaxFaces faces; a photo whose
\* fetch, decode, detection or encoding raises has a stage in FailStages.
Outcomes == [stage : {"ok"}, n : 0..MaxFaces] \cup [stage : FailStages, n : {0}]

\* The body of the try block for one photo: the records the photo adds to
\* all_encodings and face_to_photo, or nothing when any call raised (the
\* appends come after both calls).  A URL is fetched and decoded, a local
\* path is loaded from disk: either way the image is there or a call raised.
process_photo(acc, image_path, o) ==
    IF o.stage # "ok" THEN acc
    ELSE LET locations == face_locations(o.n)
             encodings == face_encodings(image_path, locations)
         IN [all_encodings |-> acc.all_encodings \o encodings,
             face_to_photo |-> acc.face_to_photo \o
                 [j \in 1..Len(locations) |->
                     [photo_path |-> image_path, location |-> locations[j]]]]

\* Mutant: total_photos counts the photos that gave a face record.
detect_result_counts_recorded(acc, total) ==
    [face_encodings |-> acc.all_encodings,
     face_to_photo_map |-> acc.face_to_photo,
     total_photos |-> Cardinality({acc.face_to_photo[i].photo_path :
                                      i \in 1..Len(acc.face_to_photo)}),
     total_faces |-> Len(acc.all_encodings)]

\* The dict detect_faces returns.
detect_result(acc, total) ==
    [face_encodings |-> acc.all_encodings,
     face_to_photo_map |-> acc.face_to_photo,
     total_photos |-> total,
     total_faces |-> Len(acc.all_encodings)]

\* The cache_data dict: the detection result with the cluster labels.
cache_data(acc, labels, total) ==
    [face_encodings |-> acc.all_encodings,
     face_to_photo_map |-> acc.face_to_photo,
     cluster_labels |-> labels,
     total_photos |-> total,
     total_faces |-> Len(acc.all_encodings)]

Callbacks == {"none", "ok", "raises"}

EmptyAcc == [all_encodings |-> <<>>, face_to_photo |-> <<>>]

IdleProc ==
    [pc |-> "idle", mode |-> "api", paths |-> <<>>, idx |-> 1, cb |-> "none",
     eps |-> TOLERANCE, people |-> 0, acc |-> EmptyAcc, log |-> <<>>, data |-> None, written |-> 0,
     ok |-> FALSE, had |-> FALSE, over |-> FALSE]

NoCounts == [noise_count |-> 0, unique_people |-> 0, named_count |-> 0]

IdleRd ==
    [pc |-> "idle", result |-> None, how |-> "none", valid |-> FALSE,
     at |-> "none", msg |-> "none", person_clusters |-> <<>>,
     person_names |-> NoNames, counts |-> NoCounts, people |-> <<>>,
     search_query |-> <<>>, used_photos |-> {}, unused_photos |-> <<>>,
     valid_names |-> <<>>]

(***************************************************************************)
(* The producer.                                                           *)
(***************************************************************************)
\* FaceProcessor.load_images through the local backend, then the call of
\* detect_faces(image_paths) with no progress callback: the locals before
\* the loop.  A missing folder raises ValueError to the caller.
load_images ==
    /\ proc.pc = "idle"
    /\ LET r == list_local_photos(folder)
       IN IF r.raised
          THEN proc' = [proc EXCEPT !.pc = "raised"]
          ELSE proc' = [IdleProc EXCEPT !.pc = "loop", !.mode = "api",
                                        !.paths = r.photos]
    /\ UNCHANGED <<storage, names, folder, cache, rd>>

\* process_faces_locally.py: the URL list is read (the file's first lines,
\* however many it holds) and the loop starts; the script passes no callback.
script_start ==
    /\ proc.pc = "idle"
    /\ \E n \in 0..Len(cloudinary_urls) :
          proc' = [IdleProc EXCEPT !.pc = "loop", !.mode = "script",
                                  !.paths = SubSeq(cloudinary_urls, 1, n)]
    /\ UNCHANGED <<storage, names, folder, cache, rd>>

\* Mutant: the except clause leaves the loop (break) instead of going on.
detect_step_breaks ==
    /\ proc.pc = "loop"
    /\ proc.idx <= Len(proc.paths)
    /\ IF proc.cb = "raises"
       THEN proc' = [proc EXCEPT !.pc = "raised"]
       ELSE \E o \in Outcomes :
               proc' = [proc EXCEPT
                   !.acc = process_photo(proc.acc, proc.paths[proc.idx], o),
                   !.log = Append(proc.log, [failed |-> o.stage # "ok", n |-> o.n]),
                   !.idx = IF o.stage # "ok" THEN Len(proc.paths) + 1
                           ELSE proc.idx + 1]
    /\ UNCHANGED <<storage, names, folder, cache, rd>>

\* One iteration of the for loop: the progress callback (outside the try),
\* then the try block on the photo; `except Exception: continue`.
detect_step ==
    /\ proc.pc = "loop"
    /\ proc.idx <= Len(proc.paths)
    /\ IF proc.cb = "raises"
       THEN proc' = [proc EXCEPT !.pc = "raised"]
       ELSE \E o \in Outcomes :
               proc' = [proc EXCEPT
                   !.acc = process_photo(proc.acc, proc.paths[proc.idx], o),
                   !.log = Append(proc.log, [failed |-> o.stage # "ok", n |-> o.n]),
                   !.idx = proc.idx + 1]
    /\ UNCHANGED <<storage, names, folder, cache, rd>>

\* The loop is over: detect_faces returns its dict.
detect_return ==
    /\ proc.pc = "loop"
    /\ proc.idx > Len(proc.paths)
    /\ proc' = [proc EXCEPT !.pc = "detected",
                            !.data = detect_result(proc.acc, Len(proc.paths))]
    /\ UNCHANGED <<storage, names, folder, cache, rd>>

\* Clustering and the cache_data dict; an exception of the clustering is
\* not caught.  The script prints its count of unique people.
cluster_step ==
    /\ proc.pc = "detected"
    /\ LET r == cluster_faces(proc.acc.all_encodings, proc.eps)
       IN IF r.raised
          THEN proc' = [proc EXCEPT !.pc = "raised"]
          ELSE proc' = [proc EXCEPT !.pc = "assembled",
                                    !.people = IF proc.mode = "script"
                                               THEN unique_people(r.labels) ELSE 0,
                                    !.data = cache_data(proc.acc, r.labels,
                                                        Len(proc.paths))]
    /\ UNCHANGED <<storage, names, folder, cache, rd>>

\* Mutant: the failure is swallowed and the operation reports success.
write_failed_swallowed(p) ==
    IF p.mode = "api"
    THEN [p EXCEPT !.pc = "returned", !.ok = TRUE]
    ELSE [p EXCEPT !.pc = "success"]

\* What the failure of the write does to the producer: save_cache catches
\* the exception, prints it and returns False; the script has no handler,
\* so the exception ends it.
write_failed(p) ==
    IF p.mode = "api"
    THEN [p EXCEPT !.pc = "returned", !.ok = FALSE]
    ELSE [p EXCEPT !.pc = "raised"]

\* What the end of the with block does: save_cache returns True; the script
\* goes on to print SUCCESS.
write_done(p) ==
    IF p.mode = "api"
    THEN [p EXCEPT !.pc = "returned", !.ok = TRUE]
    ELSE [p EXCEPT !.pc = "success"]

\* open(cache_file, 'wb') succeeds: the file is created or truncated.
\* `over` records whether a loadable cache was there to be overwritten.
save_open ==
    /\ proc.pc = "assembled"
    /\ cache' = open_wb(cache)
    /\ proc' = [proc EXCEPT !.pc = "dumping", !.written = 0,
                            !.over = (load_cache(cache) # None)]
    /\ UNCHANGED <<storage, names, folder, rd>>

\* open(cache_file, 'wb') raises (no permission, no such directory).
save_open_fails ==
    /\ proc.pc = "assembled"
    /\ proc' = write_failed(proc)
    /\ UNCHANGED <<storage, names, folder, cache, rd>>

\* pickle.dump: the next flush reaches the file.
save_flush ==
    /\ proc.pc = "dumping"
    /\ proc.written < Len(pickle_dump(proc.data))
    /\ LET chunk == next_chunk(pickle_dump(proc.data), proc.written)
       IN /\ cache' = [cache EXCEPT !.bytes = cache.bytes \o chunk]
          /\ proc' = [proc EXCEPT !.written = proc.written + Len(chunk)]
    /\ UNCHANGED <<storage, names, folder, rd>>

\* pickle.dump raises part-way (disk full, I/O error): the with block closes
\* the file with what reached it.
save_flush_fails ==
    /\ proc.pc = "dumping"
    /\ proc.written < Len(pickle_dump(proc.data))
    /\ proc' = write_failed(proc)
    /\ UNCHANGED <<storage, names, folder, cache, rd>>

\* Everything is written: the with block closes the file.
save_close ==
    /\ proc.pc = "dumping"
    /\ proc.written = Len(pickle_dump(proc.data))
    /\ proc' = write_done(proc)
    /\ UNCHANGED <<storage, names, folder, cache, rd>>

\* os.remove(cache_file) in clear_cache.
os_remove(file) == NoFile

\* Mutant: no os.path.exists check, so os.remove raises on a missing file
\* and the call returns False.
clear_cache_unchecked ==
    /\ proc.pc = "idle"
    /\ \/ /\ path_exists(cache)
          /\ cache' = os_remove(cache)
          /\ proc' = [proc EXCEPT !.pc = "cleared", !.ok = TRUE, !.had = TRUE]
       \/ /\ path_exists(cache)
          /\ cache' = cache
          /\ proc' = [proc EXCEPT !.pc = "cleared", !.ok = FALSE, !.had = TRUE]
       \/ /\ ~path_exists(cache)
          /\ cache' = cache
          /\ proc' = [proc EXCEPT !.pc = "cleared", !.ok = FALSE, !.had = FALSE]
    /\ UNCHANGED <<storage, names, folder, rd>>

\* CacheManager.clear_cache.  os.remove may raise (the file is locked or
\* protected): the call then prints the error and returns False.  `had` is
\* what os.path.exists answered.
clear_cache ==
    /\ proc.pc = "idle"
    /\ \/ /\ path_exists(cache)
          /\ cache' = os_remove(cache)
          /\ proc' = [proc EXCEPT !.pc = "cleared", !.ok = TRUE, !.had = TRUE]
       \/ /\ path_exists(cache)
          /\ cache' = cache
          /\ proc' = [proc EXCEPT !.pc = "cleared", !.ok = FALSE, !.had = TRUE]
       \/ /\ ~path_exists(cache)
          /\ cache' = cache
          /\ proc' = [proc EXCEPT !.pc = "cleared", !.ok = TRUE, !.had = FALSE]
    /\ UNCHANGED <<storage, names, folder, rd>>

\* The call is over; the producer is ready for the next one.
proc_reset ==
    /\ proc.pc \in {"returned", "raised", "success", "cleared"}
    /\ proc' = IdleProc
    /\ UNCHANGED <<storage, names, folder, cache, rd>>

(***************************************************************************)
(* The consumer.                                                           *)
(***************************************************************************)
\* Where the producer is with the cache file: writing it (over a loadable
\* cache or not), done writing it with success reported, or elsewhere.
write_phase(p) ==
    IF p.pc = "dumping" THEN (IF p.over THEN "overwriting" ELSE "writing")
    ELSE IF (p.pc = "returned" /\ p.ok) \/ p.pc = "success" THEN "saved"
    ELSE "other"

\* load_cache, line 41: os.path.exists; a missing file returns None at once.
load_exists ==
    /\ rd.pc = "idle"
    /\ IF path_exists(cache)
       THEN rd' = [rd EXCEPT !.pc = "opening"]
       ELSE rd' = [rd EXCEPT !.pc = "loaded", !.result = None, !.how = "absent",
                             !.at = write_phase(proc)]
    /\ UNCHANGED <<storage, names, folder, cache, proc>>

\* Mutant: a cache file that does not unpickle is deleted by the reader.
load_read_removes_corrupt ==
    /\ rd.pc = "opening"
    /\ LET r == pickle_load(cache.bytes)
       IN /\ rd' = [rd EXCEPT
                 !.pc = "loaded",
                 !.result = IF path_exists(cache) /\ r.ok THEN r.val ELSE None,
                 !.how = IF ~path_exists(cache) THEN "vanished"
                         ELSE IF r.ok THEN "ok" ELSE "corrupt",
                 !.at = write_phase(proc)]
          /\ cache' = IF path_exists(cache) /\ ~r.ok THEN NoFile ELSE cache
    /\ UNCHANGED <<storage, names, folder, proc>>

\* load_cache, lines 44-50: open and pickle.load; every exception (the file
\* gone meanwhile, EOFError, UnpicklingError) is printed and None returned.
\* `at` records where the producer was at the read.
load_read ==
    /\ rd.pc = "opening"
    /\ LET r == pickle_load(cache.bytes)
       IN rd' = [rd EXCEPT
              !.pc = "loaded",
              !.result = IF path_exists(cache) /\ r.ok THEN r.val ELSE None,
              !.how = IF ~path_exists(cache) THEN "vanished"
                      ELSE IF r.ok THEN "ok" ELSE "corrupt",
              !.at = write_phase(proc)]
    /\ UNCHANGED <<storage, names, folder, cache, proc>>

\* Python truth of load_cache's result: None and the empty dict are false.
truthy(v) == v # None /\ DOMAIN v # {}

\* app.load_faces_from_cache after its load_cache call: the session takes
\* the dataset, the clusters, the names of person_names.json and the
\* counts, or the error "Face cache not found" is shown.
load_faces_from_cache ==
    /\ rd.pc = "loaded"
    /\ IF truthy(rd.result)
       THEN LET person_clusters == get_person_clusters(rd.result.cluster_labels)
            IN rd' = [rd EXCEPT !.pc = "shown", !.msg = "loaded",
                                !.person_clusters = person_clusters,
                                !.person_names = names,
                                !.counts = gallery_counts(person_clusters, names)]
       ELSE rd' = [rd EXCEPT !.pc = "shown", !.msg = "not_found"]
    /\ UNCHANGED <<storage, names, folder, cache, proc>>

\* What the visitor may type in the search box.
SearchQueries == {<<>>, <<"A">>}

\* app.main with a dataset and at least one cluster in the session, and no
\* person selected: display_face_selector with the search query as typed.
\* The list is filtered, sorted by name and shown with its length.
display_face_selector ==
    /\ rd.pc = "shown"
    /\ rd.msg = "loaded"
    /\ Len(rd.person_clusters) > 0
    /\ \E search_query \in SearchQueries :
          rd' = [rd EXCEPT
              !.pc = "selector",
              !.search_query = search_query,
              !.people = sort_by_name(search_filter(
                             valid_people(rd.person_clusters, rd.person_names),
                             search_query))]
    /\ UNCHANGED <<storage, names, folder, cache, proc>>

\* admin_labeling.main after its load_cache call, in the labelling mode:
\* the clusters, the names, the list of people and the statistics; or the
\* error "Face cache not found" and return.
admin_main ==
    /\ rd.pc = "loaded"
    /\ IF truthy(rd.result)
       THEN LET person_clusters == get_person_clusters(rd.result.cluster_labels)
                people == admin_valid_people(person_clusters)
            IN rd' = [rd EXCEPT
                   !.pc = "admin", !.msg = "loaded",
                   !.person_clusters = person_clusters,
                   !.person_names = names,
                   !.people = people,
                   !.counts = [noise_count |-> 0,
                               unique_people |-> Len(people),
                               named_count |-> labeled_count(people, names)]]
       ELSE rd' = [rd EXCEPT !.pc = "admin", !.msg = "not_found"]
    /\ UNCHANGED <<storage, names, folder, cache, proc>>

\* os.listdir(folder_path): raises when the folder is missing.
listdir(fld) == fld.files

\* cached_photos of is_cache_valid: cache_data.get('face_to_photo_map', []).
cached_photos(data) ==
    IF "face_to_photo_map" \in DOMAIN data
    THEN {data.face_to_photo_map[i].photo_path : i \in 1..Len(data.face_to_photo_map)}
    ELSE {}

\* Mutant: the cache is taken as valid when every cached photo is still there.
is_cache_valid_subset(file, fld) ==
    LET data == load_cache(file)
    IN IF data = None THEN FALSE
       ELSE IF ~fld.exists THEN FALSE
       ELSE cached_photos(data) \subseteq supported_photos(PHOTOS_FOLDER, listdir(fld))

\* CacheManager.is_cache_valid(folder_path)
is_cache_valid(file, fld) ==
    LET data == load_cache(file)
    IN IF data = None THEN FALSE
       ELSE IF ~fld.exists THEN FALSE
       ELSE supported_photos(PHOTOS_FOLDER, listdir(fld)) = cached_photos(data)

\* Mutant: os.listdir is called outside the try, so a folder that cannot be
\* listed raises to the caller.
is_cache_valid_listdir_unguarded(file, fld) ==
    IF load_cache(file) # None /\ ~fld.exists
    THEN [raised |-> TRUE, valid |-> FALSE]
    ELSE [raised |-> FALSE, valid |-> is_cache_valid(file, fld)]

\* How a call of is_cache_valid ends: load_cache catches every exception
\* of the read (lines 44-50) and the listing is inside try/except (67-74),
\* so the call returns its value.
is_cache_valid_outcome(file, fld) ==
    [raised |-> FALSE, valid |-> is_cache_valid(file, fld)]

\* A call of is_cache_valid(PHOTOS_FOLDER).
check_valid ==
    /\ rd.pc = "idle"
    /\ LET r == is_cache_valid_outcome(cache, folder)
       IN rd' = [rd EXCEPT !.pc = "validated", !.valid = r.valid,
                           !.msg = IF r.raised THEN "raised" ELSE "returned"]
    /\ UNCHANGED <<storage, names, folder, cache, proc>>

\* The call is over.
rd_reset ==
    /\ rd.pc \in {"loaded", "shown", "validated", "selector", "admin"}
    /\ rd' = IdleRd
    /\ UNCHANGED <<storage, names, folder, cache, proc>>

(***************************************************************************)
(* The environment: the photo folder changes.                              *)
(***************************************************************************)
add_file ==
    /\ folder.exists
    /\ \E f \in FileNames \ folder.files :
          folder' = [folder EXCEPT !.files = folder.files \cup {f}]
    /\ UNCHANGED <<storage, names, cache, proc, rd>>

remove_file ==
    /\ \E f \in folder.files :
          folder' = [folder EXCEPT !.files = folder.files \ {f}]
    /\ UNCHANGED <<storage, names, cache, proc, rd>>

rename_file ==
    /\ \E f \in folder.files, g \in FileNames \ folder.files :
          folder' = [folder EXCEPT !.files = (folder.files \ {f}) \cup {g}]
    /\ UNCHANGED <<storage, names, cache, proc, rd>>

remove_folder ==
    /\ folder.exists
    /\ folder.files = {}
    /\ folder' = [exists |-> FALSE, files |-> {}]
    /\ UNCHANGED <<storage, names, cache, proc, rd>>

create_folder ==
    /\ ~folder.exists
    /\ folder' = [exists |-> TRUE, files |-> {}]
    /\ UNCHANGED <<storage, names, cache, proc, rd>>

(***************************************************************************)
(* Spec: the cache store with its producer (the library calls and the      *)
(* script) and its consumer, over a photo folder that does not change.     *)
(***************************************************************************)
Init ==
    /\ storage = IdleStorage
    /\ names = NoNames
    /\ folder = [exists |-> TRUE, files |-> {"a.jpg", "n.txt"}]
    /\ cache = NoFile
    /\ proc = IdleProc
    /\ rd = IdleRd

Detect ==
    \/ detect_step
    \/ detect_return
    \/ cluster_step

Save ==
    \/ save_open
    \/ save_open_fails
    \/ save_flush
    \/ save_flush_fails
    \/ save_close

Consumer ==
    \/ load_exists
    \/ load_read
    \/ load_faces_from_cache
    \/ check_valid
    \/ rd_reset

Environment ==
    \/ add_file
    \/ remove_file
    \/ rename_file
    \/ remove_folder
    \/ create_folder

Next ==
    \/ load_images
    \/ script_start
    \/ Detect
    \/ Save
    \/ clear_cache
    \/ proc_reset
    \/ Consumer

Spec == Init /\ [][Next]_vars

(***************************************************************************)
(* SpecValid: the pipeline over the local photo folder, the cache and      *)
(* is_cache_valid, while the environment changes the folder.               *)
(***************************************************************************)
InitValid ==
    /\ storage = IdleStorage
    /\ names = NoNames
    /\ folder = [exists |-> TRUE, files |-> {}]
    /\ cache = NoFile
    /\ proc = IdleProc
    /\ rd = IdleRd

NextValid ==
    \/ load_images
    \/ Detect
    \/ Save
    \/ clear_cache
    \/ proc_reset
    \/ check_valid
    \/ rd_reset
    \/ Environment

SpecValid == InitValid /\ [][NextValid]_vars

(***************************************************************************)
(* SpecRT: one save_cache of an arbitrary well-formed dataset, over no     *)
(* cache file or an older one, with load_cache calls around it.            *)
(***************************************************************************)
\* Most face records of a dataset drawn for SpecRT.
MaxRecords == 2

BoundedSeq(S, n) == UNION {[1..k -> S] : k \in 0..n}

RTPaths == {path_join(PHOTOS_FOLDER, "a.jpg"), cloudinary_urls[1]}

\* The well-formed datasets: three parallel sequences, total_faces their
\* length.
WellFormedDatasets ==
    UNION {[face_encodings : [1..n -> {0, 5}],
            face_to_photo_map : [1..n -> [photo_path : RTPaths, location : {1, 2}]],
            cluster_labels : [1..n -> {-1, 0}],
            total_photos : {0, MaxRecords},
            total_faces : {n}] : n \in 0..MaxRecords}

OldData == cache_data(process_photo(EmptyAcc, path_join(PHOTOS_FOLDER, "b.JPG"),
                                    [stage |-> "ok", n |-> 1]), <<0>>, 1)

InitRT ==
    /\ storage = IdleStorage
    /\ names = NoNames
    /\ folder = [exists |-> TRUE, files |-> {}]
    /\ cache \in {NoFile, [exists |-> TRUE, bytes |-> pickle_dump(OldData)]}
    /\ \E D \in WellFormedDatasets :
          proc = [IdleProc EXCEPT !.pc = "assembled", !.data = D]
    /\ rd = IdleRd

\* The run is interrupted (the process is killed, the machine stops) at
\* any point between its start and its last write: what had reached the
\* cache file stays there, and nothing in the code removes or restores it.
interrupt ==
    /\ proc.pc \in {"loop", "detected", "assembled", "dumping"}
    /\ proc' = [proc EXCEPT !.pc = "interrupted"]
    /\ UNCHANGED <<storage, names, folder, cache, rd>>

NextRT ==
    \/ Save
    \/ interrupt
    \/ load_exists
    \/ load_read
    \/ rd_reset

SpecRT == InitRT /\ [][NextRT]_vars

(***************************************************************************)
(* SpecDetect: detect_faces on every input list, with every callback.      *)
(***************************************************************************)
DetectPaths == {path_join(PHOTOS_FOLDER, "a.jpg"), path_join(PHOTOS_FOLDER, "b.JPG"),
                cloudinary_urls[2]}

InitDetect ==
    /\ storage = IdleStorage
    /\ names = NoNames
    /\ folder = [exists |-> TRUE, files |-> {}]
    /\ cache = NoFile
    /\ \E paths \in BoundedSeq(DetectPaths, MaxPhotos), cb \in Callbacks :
          proc = [IdleProc EXCEPT !.pc = "loop", !.paths = paths, !.cb = cb]
    /\ rd = IdleRd

NextDetect == Detect

SpecDetect == InitDetect /\ [][NextDetect]_vars

(***************************************************************************)
(* SpecCluster: the clustering step on every list of embeddings, with      *)
(* config.TOLERANCE at zero, at its configured value and at the greatest   *)
(* distance there is.                                                      *)
(***************************************************************************)
\* Most embeddings in a list drawn for SpecCluster.
MaxEmbeddings == 3

\* Embedding values (tenths): 0, 5, 10 chain within TOLERANCE, 20 and 26 are
\* exactly TOLERANCE apart and far from the others.
EmbValues == {0, 5, 10, 20, 26}

\* The greatest distance between two embeddings.
Diameter == CHOOSE d \in 0..26 :
               /\ \E a, b \in EmbValues : distance(a, b) = d
               /\ \A a, b \in EmbValues : distance(a, b) <= d

EpsValues == {0, TOLERANCE, Diameter}

\* detect_faces has returned the faces `encodings`, found one per photo.
DetectedFaces(encodings) ==
    LET acc == [all_encodings |-> encodings,
                face_to_photo |-> [j \in 1..Len(encodings) |->
                    [photo_path |-> path_join(PHOTOS_FOLDER, "a.jpg"), location |-> 1]]]
        paths == [j \in 1..Len(encodings) |-> path_join(PHOTOS_FOLDER, "a.jpg")]
    IN [IdleProc EXCEPT !.pc = "detected", !.paths = paths,
                        !.idx = Len(encodings) + 1, !.acc = acc,
                        !.log = [j \in 1..Len(encodings) |-> [failed |-> FALSE, n |-> 1]],
                        !.data = detect_result(acc, Len(encodings))]

InitCluster ==
    /\ storage = IdleStorage
    /\ names = NoNames
    /\ folder = [exists |-> TRUE, files |-> {}]
    /\ cache = NoFile
    /\ \E encodings \in BoundedSeq(EmbValues, MaxEmbeddings), eps \in EpsValues :
          proc = [DetectedFaces(encodings) EXCEPT !.eps = eps]
    /\ rd = IdleRd

NextCluster == cluster_step

SpecCluster == InitCluster /\ [][NextCluster]_vars

(***************************************************************************)
(* SpecGallery: the gallery and the admin tool over every cached label     *)
(* sequence and every content of person_names.json, and the script's       *)
(* clustering step with its count of people.                               *)
(***************************************************************************)
\* Most face records of a dataset drawn for SpecGallery.
MaxLabels == 3

\* The cluster ids of a cached label sequence: noise and two clusters.
LabelValues == {-1, 0, 1}

\* The names of person_names.json: "", "Sk", "SKIP", "???", "no idea",
\* "No idea?" and "Ann".
GalleryNames ==
    {<<>>,
     <<"S", "k">>,
     <<"S", "K", "I", "P">>,
     <<"?", "?", "?">>,
     <<"n", "o", " ", "i", "d", "e", "a">>,
     <<"N", "o", " ", "i", "d", "e", "a", "?">>,
     <<"A", "n", "n">>}

\* The contents of person_names.json.
NameFiles == UNION {[K -> GalleryNames] : K \in SUBSET {str(c) : c \in LabelValues}}

\* A dataset with the cluster labels `cluster_labels`.
GalleryDataset(cluster_labels) ==
    [face_encodings |-> [i \in 1..Len(cluster_labels) |-> 0],
     face_to_photo_map |-> [i \in 1..Len(cluster_labels) |->
                               [photo_path |-> cloudinary_urls[1], location |-> i]],
     cluster_labels |-> cluster_labels,
     total_photos |-> 1,
     total_faces |-> Len(cluster_labels)]

InitGallery ==
    /\ storage = IdleStorage
    /\ folder = [exists |-> TRUE, files |-> {}]
    /\ rd = IdleRd
    /\ \/ /\ names \in NameFiles
          /\ \E cluster_labels \in BoundedSeq(LabelValues, MaxLabels) :
                cache = [exists |-> TRUE,
                         bytes |-> pickle_dump(GalleryDataset(cluster_labels))]
          /\ proc = IdleProc
       \/ /\ names = NoNames
          /\ cache = NoFile
          /\ \E encodings \in BoundedSeq(EmbValues, MaxLabels) :
                proc = [DetectedFaces(encodings) EXCEPT !.mode = "script"]

NextGallery ==
    \/ cluster_step
    \/ load_exists
    \/ load_read
    \/ load_faces_from_cache
    \/ display_face_selector
    \/ admin_main
    \/ rd_reset

SpecGallery == InitGallery /\ [][NextGallery]_vars

(***************************************************************************)
(* Claims.                                                                 *)
(***************************************************************************)
\* The reader has finished a load_cache call.
Loaded == rd.pc \in {"loaded", "shown"}

\* C1: a load_cache that reads while save_cache is replacing a loadable
\* cache never finds a partially written file: it returns a dataset (the
\* previous one or the new one), never the None of a file that does not
\* unpickle.
C1_NoPartialRead ==
    (Loaded /\ rd.at = "overwriting") => (rd.how = "ok" /\ rd.result # None)

\* C2: round trip.  A load_cache that reads after save_cache(D) returned True
\* returns a dataset equal to D.
C2_RoundTrip ==
    (Loaded /\ rd.at = "saved" /\ proc.pc = "returned") => rd.result = proc.data

\* C2 witness: a dataset with face records, two of them of one photo and one
\* a noise face, came back from the cache that replaced an older one.
C2_Witness ==
    /\ Loaded
    /\ rd.at = "saved"
    /\ proc.pc = "returned"
    /\ rd.how = "ok"
    /\ rd.result = proc.data
    /\ rd.result # OldData
    /\ Len(rd.result.face_encodings) = MaxRecords
    /\ rd.result.face_to_photo_map[1].photo_path = rd.result.face_to_photo_map[2].photo_path
    /\ rd.result.cluster_labels[1] = -1

\* C6: a cache file that exists and does not unpickle gives load_cache a
\* result that differs from the one it gives for a missing file.
C6_CorruptDistinct ==
    (Loaded /\ rd.how = "corrupt") => rd.result # load_cache(NoFile)

\* What the cache file holds when `data` was written in full.
CompleteFile(data) == [exists |-> TRUE, bytes |-> pickle_dump(data)]

\* C7: a save that cannot complete is never reported as a success: when
\* save_cache has returned True, or the script has gone on to print SUCCESS,
\* the cache file holds the whole dataset; a failed write makes save_cache
\* return False and ends the script with the exception.
C7_SaveFailsLoudly ==
    /\ (proc.pc = "returned" /\ proc.ok) => cache = CompleteFile(proc.data)
    /\ proc.pc = "success" => cache = CompleteFile(proc.data)
    /\ (proc.pc = "returned" /\ ~proc.ok) => proc.mode = "api"
    /\ (proc.pc = "raised" /\ proc.data # None) => proc.mode = "script"

\* C7 witness: a write failed part-way, and the script ended with the
\* exception, leaving a file that does not unpickle.
C7_Witness ==
    /\ proc.pc = "raised"
    /\ proc.mode = "script"
    /\ proc.written > 0
    /\ cache.exists
    /\ ~pickle_load(cache.bytes).ok

\* C8: clear_cache is idempotent.  With no cache file it returns True and
\* leaves none; whenever it returns True there is no cache file and
\* load_cache reports it absent, so a further clear_cache finds the state
\* of the first and keeps it; a clear_cache that returns False changed nothing.
C8_ClearIdempotent ==
    proc.pc = "cleared" =>
        /\ ~proc.had => (proc.ok /\ cache = NoFile)
        /\ proc.ok => (cache = NoFile /\ load_cache(cache) = None)
        /\ ~proc.ok => (proc.had /\ path_exists(cache))

\* C8 witness: clear_cache has returned True on a cache that was not there.
C8_Witness ==
    /\ proc.pc = "cleared"
    /\ ~proc.had
    /\ proc.ok
    /\ cache = NoFile

\* C9: no step of the consumer (load_cache, is_cache_valid, the gallery's
\* load_faces_from_cache) changes the cache file; the file changes only in
\* a step of a write (open, flush) or of clear_cache.
C9_OnlyClearDestroys ==
    [][/\ rd' # rd => cache' = cache
       /\ cache' # cache => proc'.pc \in {"dumping", "cleared"}]_vars

\* C9 witness: after the producer has finished and gone idle, the gallery
\* has loaded the dataset, and the cache file still holds it.
C9_Witness ==
    /\ rd.pc = "shown"
    /\ rd.msg = "loaded"
    /\ rd.at = "other"
    /\ proc.pc = "idle"
    /\ load_cache(cache) = rd.result
    /\ rd.result.total_faces > 0

\* The names of FileNames with a supported image extension, in any case.
SupportedNames == {"a.jpg", "b.JPG"}

\* The current set of photo identifiers of the folder.
CurrentIds(fld) == {<<PHOTOS_FOLDER, f>> : f \in fld.files \cap SupportedNames}

\* The cache file exists and unpickles.
Loadable(file) == file.exists /\ pickle_load(file.bytes).ok

\* The photo_path values recorded in the face_to_photo_map of a loadable cache.
RecordedIds(file) ==
    LET m == pickle_load(file.bytes).val.face_to_photo_map
    IN {m[i].photo_path : i \in 1..Len(m)}

\* A step that is a call of is_cache_valid.
CheckStep == rd.pc = "idle" /\ rd'.pc = "validated"

\* The producer has just saved, with success, the dataset it built from the
\* photo list proc.paths.
SavedFromPaths == proc.pc = "returned" /\ proc.ok /\ proc.mode = "api"

\* C3: validity monotonicity.  For the dataset the pipeline built from photo
\* set P and saved, is_cache_valid is true against P and false against any
\* other photo set.
C3_ValidityMonotone ==
    [][(CheckStep /\ SavedFromPaths /\ folder.exists)
          => (rd'.valid = (CurrentIds(folder) = Range(proc.paths)))]_vars

\* C4: with a loadable cache, is_cache_valid is true exactly when the set of
\* current photo identifiers equals the set of recorded photo_path values.
C4_ValidIffSetsEqual ==
    [][(CheckStep /\ Loadable(cache) /\ folder.exists)
          => (rd'.valid = (CurrentIds(folder) = RecordedIds(cache)))]_vars

\* C4 witness: is_cache_valid said true for a folder that also holds an
\* unsupported file and an upper-case extension, against a cache with two
\* photos and more face records than photos.
C4_Witness ==
    /\ rd.pc = "validated"
    /\ rd.valid
    /\ is_cache_valid(cache, folder)
    /\ folder.files = FileNames
    /\ Cardinality(RecordedIds(cache)) = 2
    /\ Len(load_cache(cache).face_to_photo_map) > 2

RECURSIVE ExpectedRecords(_, _, _)
ExpectedRecords(paths, log, i) ==
    IF i > Len(paths) THEN <<>>
    ELSE (IF log[i].failed THEN <<>>
          ELSE [j \in 1..log[i].n |-> [photo_path |-> paths[i], location |-> j]])
         \o ExpectedRecords(paths, log, i + 1)

\* C10: a bad photo never aborts the batch.  detect_faces leaves its loop
\* only by returning or through the progress callback raising; when it
\* returns it has visited every photo, and its face records are exactly
\* those of the photos that did not fail, in input order.
C10_BadPhotoNeverAborts ==
    /\ proc.pc = "raised" => proc.cb = "raises"
    /\ proc.pc = "loop" => Len(proc.log) = proc.idx - 1
    /\ proc.pc = "detected" =>
          /\ Len(proc.log) = Len(proc.paths)
          /\ proc.data.face_to_photo_map = ExpectedRecords(proc.paths, proc.log, 1)
          /\ Len(proc.data.face_encodings) = Len(proc.data.face_to_photo_map)

\* C10 witness: detect_faces has returned the faces of the last photo after
\* the first photo of the list failed.
C10_Witness ==
    /\ proc.pc = "detected"
    /\ Len(proc.paths) = MaxPhotos
    /\ proc.log[1].failed
    /\ ~proc.log[MaxPhotos].failed
    /\ proc.log[MaxPhotos].n > 0
    /\ proc.data.face_to_photo_map[Len(proc.data.face_to_photo_map)].photo_path
          = proc.paths[MaxPhotos]

\* The dict detect_faces returns for `paths` when no progress callback is
\* supplied and photo i meets the outcome log[i].
RECURSIVE RunWithoutCallback(_, _, _, _)
RunWithoutCallback(paths, log, i, acc) ==
    IF i > Len(paths) THEN detect_result(acc, Len(paths))
    ELSE RunWithoutCallback(paths, log, i + 1,
             process_photo(acc, paths[i],
                           [stage |-> IF log[i].failed THEN "fetch" ELSE "ok",
                            n |-> log[i].n]))

\* C11: progress notification is purely observational.  Whatever callback is
\* supplied and whatever it does, detect_faces returns, and what it returns
\* is what it returns for the same photos without a callback.
C11_CallbackObservational ==
    /\ proc.pc # "raised"
    /\ proc.pc = "detected" =>
          proc.data = RunWithoutCallback(proc.paths, proc.log, 1, EmptyAcc)

\* C12: the dict detect_faces returns, and the cache_data built from it,
\* report total_photos equal to the number of input identifiers, skipped
\* photos included, and total_faces equal to the number of face records.
C12_TotalsCount ==
    proc.pc \in {"detected", "assembled"} =>
        /\ proc.data.total_photos = Len(proc.paths)
        /\ proc.data.total_faces = Len(proc.data.face_to_photo_map)

\* C12 witness: detect_faces has returned from a full list in which one
\* photo was skipped, one showed no face and one showed several.
C12_Witness ==
    /\ proc.pc = "detected"
    /\ Len(proc.paths) = MaxPhotos
    /\ proc.data.total_photos = MaxPhotos
    /\ \E i, j, k \in 1..MaxPhotos :
          /\ proc.log[i].failed
          /\ ~proc.log[j].failed /\ proc.log[j].n = 0
          /\ ~proc.log[k].failed /\ proc.log[k].n = MaxFaces
    /\ proc.data.total_faces = MaxFaces

\* The three sequences of a dataset are parallel and total_faces is their
\* length.
ParallelDataset(d) ==
    /\ Len(d.face_encodings) = d.total_faces
    /\ Len(d.face_to_photo_map) = d.total_faces
    /\ Len(d.cluster_labels) = d.total_faces

\* The label list answers the embedding list position by position: faces
\* within eps of each other share their label, and labels are numbered from
\* 0 in the order in which their first face comes.
LabelsInInputOrder(encodings, labels, eps) ==
    /\ Len(labels) = Len(encodings)
    /\ \A i, j \in 1..Len(labels) :
          distance(encodings[i], encodings[j]) <= eps => labels[i] = labels[j]
    /\ \A i \in 1..Len(labels) :
          \/ labels[i] = 0
          \/ \E j \in 1..(i - 1) : labels[i] \in {labels[j], labels[j] + 1}

\* C13: every dataset the pipeline builds, and every dataset in a cache file
\* it has written in full, has face_encodings, face_to_photo_map and
\* cluster_labels of one length, equal to total_faces; the labels are one
\* per embedding, in input order.
C13_ParallelSequences ==
    /\ proc.pc \in {"assembled", "dumping", "returned", "success"} =>
          /\ ParallelDataset(proc.data)
          /\ LabelsInInputOrder(proc.data.face_encodings, proc.data.cluster_labels,
                                proc.eps)
    /\ Loadable(cache) => ParallelDataset(load_cache(cache))

\* C13 witness: the script has persisted a dataset of four faces in two
\* clusters of two, and the cache file gives it back.
C13_Witness ==
    /\ proc.pc = "success"
    /\ Loadable(cache)
    /\ load_cache(cache) = proc.data
    /\ proc.data.total_faces = 4
    /\ proc.data.cluster_labels = <<0, 0, 1, 1>>

\* The producer holds the dataset it assembled.
Assembled == proc.pc \in {"assembled", "dumping", "returned", "success"}

\* C14: empty input and empty result.  Detection and clustering raise
\* nothing (the only exception of a run is the cache write's, after the
\* dataset is assembled); with zero photos the dataset has total_photos = 0,
\* total_faces = 0 and no labels; with zero faces detected it has empty face
\* and label lists.
C14_EmptyInput ==
    /\ proc.pc = "raised" => "cluster_labels" \in DOMAIN proc.data
    /\ (Assembled /\ Len(proc.paths) = 0) =>
          /\ proc.data.total_photos = 0
          /\ proc.data.total_faces = 0
          /\ proc.data.cluster_labels = <<>>
    /\ (Assembled /\ Len(proc.acc.all_encodings) = 0) =>
          /\ proc.data.face_encodings = <<>>
          /\ proc.data.face_to_photo_map = <<>>
          /\ proc.data.cluster_labels = <<>>
          /\ proc.data.total_faces = 0
          /\ proc.data.total_photos = Len(proc.paths)

\* C14 witness: the script ran on an empty URL list to its end, and the
\* cache holds the empty dataset.
C14_Witness ==
    /\ proc.pc = "success"
    /\ Len(proc.paths) = 0
    /\ Loadable(cache)
    /\ load_cache(cache).total_photos = 0
    /\ load_cache(cache).total_faces = 0
    /\ load_cache(cache).cluster_labels = <<>>

\* Face i is farther than eps from every other face.
Isolated(encodings, eps, i) ==
    \A j \in (1..Len(encodings)) \ {i} : distance(encodings[i], encodings[j]) > eps

\* C15 as stated: a face farther than eps from every other face gets the
\* noise label -1.
C15_NoiseLabelled ==
    proc.pc = "assembled" =>
        \A i \in 1..Len(proc.data.cluster_labels) :
            Isolated(proc.data.face_encodings, proc.eps, i)
                => proc.data.cluster_labels[i] = -1

\* C15 amended: a face farther than eps from every other face gets a label
\* of its own, which is not negative; no face gets -1.
C15_IsolatedIsSingleton ==
    proc.pc = "assembled" =>
        \A i \in 1..Len(proc.data.cluster_labels) :
            /\ proc.data.cluster_labels[i] >= 0
            /\ Isolated(proc.data.face_encodings, proc.eps, i) =>
                  \A j \in (1..Len(proc.data.cluster_labels)) \ {i} :
                      proc.data.cluster_labels[j] # proc.data.cluster_labels[i]

\* C15 witness: two faces within the tolerance and a third far from both
\* have been labelled 0, 0 and 1.
C15_Witness ==
    /\ proc.pc = "assembled"
    /\ proc.eps = TOLERANCE
    /\ Len(proc.data.face_encodings) = 3
    /\ distance(proc.data.face_encodings[1], proc.data.face_encodings[2]) <= proc.eps
    /\ Isolated(proc.data.face_encodings, proc.eps, 3)
    /\ proc.data.cluster_labels = <<0, 0, 1>>

\* The clustering step is over: the labels are there, or the step raised.
ClusterDone == proc.pc \in {"assembled", "raised"}

\* C16: with eps = 0, cluster_faces returns labels, and every face whose
\* embedding differs from all the others has a label no other face has.
C16_EpsZeroSingletons ==
    (ClusterDone /\ proc.eps = 0 /\ Len(proc.acc.all_encodings) > 0) =>
        /\ proc.pc = "assembled"
        /\ \A i \in 1..Len(proc.data.cluster_labels) :
              Isolated(proc.data.face_encodings, 0, i) =>
                  \A j \in (1..Len(proc.data.cluster_labels)) \ {i} :
                      proc.data.cluster_labels[j] # proc.data.cluster_labels[i]

\* C17: with eps at least the greatest pairwise distance, cluster_faces
\* returns labels for a non-empty input and they are all the same.
C17_EpsInfinityOneCluster ==
    (/\ ClusterDone
     /\ Len(proc.acc.all_encodings) > 0
     /\ proc.eps > 0
     /\ \A i, j \in 1..Len(proc.acc.all_encodings) :
           distance(proc.acc.all_encodings[i], proc.acc.all_encodings[j]) <= proc.eps) =>
        /\ proc.pc = "assembled"
        /\ \A i \in 1..Len(proc.data.cluster_labels) :
              proc.data.cluster_labels[i] = proc.data.cluster_labels[1]

\* C17 witness: three faces, the two extreme ones as far apart as faces can
\* be and at exactly eps, have one label.
C17_Witness ==
    /\ proc.pc = "assembled"
    /\ proc.eps = Diameter
    /\ Len(proc.data.face_encodings) = 3
    /\ distance(proc.data.face_encodings[1], proc.data.face_encodings[3]) = Diameter
    /\ distance(proc.data.face_encodings[1], proc.data.face_encodings[2]) > TOLERANCE
    /\ proc.data.cluster_labels = <<0, 0, 0>>

\* The photos of the faces of one item of person_clusters.
PhotosOf(item, face_to_photo_map) ==
    {face_to_photo_map[item.faces[k] + 1].photo_path : k \in 1..Len(item.faces)}

\* Photos a, b and c of the input list are three photos with one face each,
\* the faces of a and b within eps of each other, the face of c beyond eps
\* from both.
Scenario(a, b, c) ==
    /\ Len(proc.paths) = 3
    /\ {a, b, c} = 1..3
    /\ Cardinality(Range(proc.paths)) = 3
    /\ \A i \in 1..3 : ~proc.log[i].failed /\ proc.log[i].n = 1
    /\ distance(proc.acc.all_encodings[a], proc.acc.all_encodings[b]) <= proc.eps
    /\ distance(proc.acc.all_encodings[c], proc.acc.all_encodings[a]) > proc.eps
    /\ distance(proc.acc.all_encodings[c], proc.acc.all_encodings[b]) > proc.eps

\* C18: end to end.  In the scenario the pipeline's dataset has exactly two
\* clusters, one of the faces of a and b and one of the face of c, with
\* total_faces = 3 and total_photos = 3.
C18_EndToEnd ==
    \A a, b, c \in 1..3 :
        (proc.pc = "assembled" /\ Scenario(a, b, c)) =>
            LET clusters == get_person_clusters(proc.data.cluster_labels)
            IN /\ Len(clusters) = 2
               /\ {PhotosOf(clusters[k], proc.data.face_to_photo_map) : k \in 1..2}
                     = {{proc.paths[a], proc.paths[b]}, {proc.paths[c]}}
               /\ {Len(clusters[k].faces) : k \in 1..2} = {2, 1}
               /\ proc.data.total_faces = 3
               /\ proc.data.total_photos = 3

\* C18 witness: the scenario with the far photo first in the list; its
\* cluster comes second in person_clusters, after the cluster of two.
C18_Witness ==
    /\ proc.pc = "assembled"
    /\ Scenario(2, 3, 1)
    /\ proc.data.cluster_labels = <<0, 1, 1>>
    /\ get_person_clusters(proc.data.cluster_labels)
          = <<[cluster_id |-> 1, faces |-> <<1, 2>>], [cluster_id |-> 0, faces |-> <<0>>]>>

\* The skip sentinels: skip, sk, ???, this one is blank, no idea, need to
\* review.
SkipSentinels ==
    {<<"s", "k", "i", "p">>,
     <<"s", "k">>,
     <<"?", "?", "?">>,
     <<"t", "h", "i", "s", " ", "o", "n", "e", " ", "i", "s", " ",
       "b", "l", "a", "n", "k">>,
     <<"n", "o", " ", "i", "d", "e", "a">>,
     <<"n", "e", "e", "d", " ", "t", "o", " ", "r", "e", "v", "i", "e", "w">>}

\* A name that counts as absent: empty, a sentinel in any case, or with a
\* sentinel inside it in any case.
NameIsAbsent(name) ==
    \/ name = <<>>
    \/ str_lower(name) \in SkipSentinels
    \/ \E k \in SkipSentinels : contains(str_lower(name), k)

\* C19: skip-sentinel filtering.  For every cluster in the gallery's
\* session, get_person_name gives None when the cluster's name is absent
\* and the name itself otherwise, and a cluster whose name is absent is not
\* in the list the face selector shows.
C19_SkipSentinelFiltering ==
    rd.pc = "selector" =>
        \A k \in 1..Len(rd.person_clusters) :
            LET pid == rd.person_clusters[k].cluster_id
                name == names_get(rd.person_names, str(pid))
            IN /\ get_person_name(pid, rd.person_names)
                     = IF NameIsAbsent(name) THEN None ELSE Str(name)
               /\ NameIsAbsent(name) =>
                     \A j \in 1..Len(rd.people) : rd.people[j].pid # pid

\* The cluster ids of a label sequence that stand for people.
RealClusters(cluster_labels) == Range(cluster_labels) \ {-1}

\* C20: cluster id -1 is never a person.  Whatever the cached labels and the
\* names are, the gallery's counts of people and its selector list, the
\* admin tool's list and statistics, and the script's count of unique
\* people take in the clusters other than -1 only.
C20_NoiseNeverPerson ==
    /\ (rd.pc \in {"shown", "selector"} /\ rd.msg = "loaded") =>
          /\ rd.counts.unique_people = Cardinality(RealClusters(rd.result.cluster_labels))
          /\ rd.counts.named_count =
                Cardinality({c \in RealClusters(rd.result.cluster_labels) :
                                get_person_name(c, rd.person_names) # None})
    /\ rd.pc = "selector" =>
          /\ \A k \in 1..Len(rd.people) :
                rd.people[k].pid \in RealClusters(rd.result.cluster_labels)
          /\ Len(rd.people) <= Cardinality(RealClusters(rd.result.cluster_labels))
    /\ (rd.pc = "admin" /\ rd.msg = "loaded") =>
          /\ \A k \in 1..Len(rd.people) :
                rd.people[k].cluster_id \in RealClusters(rd.result.cluster_labels)
          /\ rd.counts.unique_people = Cardinality(RealClusters(rd.result.cluster_labels))
          /\ rd.counts.named_count <= rd.counts.unique_people
    /\ (proc.pc = "assembled" /\ proc.mode = "script") =>
          proc.people = Cardinality(RealClusters(proc.data.cluster_labels))

\* C20 witness: the cache holds a noise face and a person, the names file
\* gives a name to both ids, and the selector shows the person alone.
C20_Witness ==
    /\ rd.pc = "selector"
    /\ rd.search_query = <<>>
    /\ Range(rd.result.cluster_labels) = {-1, 0}
    /\ get_person_name(-1, rd.person_names) # None
    /\ rd.counts.noise_count = 1
    /\ rd.counts.named_count = 1
    /\ Len(rd.people) = 1
    /\ rd.people[1].pid = 0

(***************************************************************************)
(* SpecAdmin: the admin tool's 'Add Person' over every cached label        *)
(* sequence and small contents of person_names.json.                       *)
(***************************************************************************)
\* Most entries of person_names.json after an 'Add Person'.
MaxNames == 4

\* What the admin may type in the "new person" box: nothing, a blank, a
\* padded name and a plain one.
NewPersonNames ==
    {<<>>,
     <<" ">>,
     <<" ", "A", "n", "n", " ">>,
     <<"S", "k">>}

\* Mutant: the new id is the lowest existing id.
next_person_id_lowest(person_names) ==
    IF DOMAIN person_names = {} THEN -1000
    ELSE CHOOSE m \in {int(pid) : pid \in DOMAIN person_names} :
             \A e \in {int(pid) : pid \in DOMAIN person_names} : m <= e

\* Lines 286-287 of admin_labeling.main: min(existing_ids) - 1, or -1000
\* for an empty mapping.
next_person_id(person_names) ==
    LET existing_ids == {int(pid) : pid \in DOMAIN person_names}
    IN IF existing_ids = {} THEN -1000
       ELSE (CHOOSE m \in existing_ids : \A e \in existing_ids : m <= e) - 1

\* person_names[key] = name
names_set(person_names, key, name) ==
    [k \in DOMAIN person_names \cup {key} |->
        IF k = key THEN name ELSE person_names[k]]

\* The 'Add Person' button of admin_labeling.main (lines 283-294) with
\* new_person_name in the text box: a name that is not blank is stored
\* stripped under the new id, the whole mapping is saved to
\* person_names.json (save_names) and the page is run again, which computes
\* the statistics anew; a blank name shows "Please enter a name".
add_person ==
    /\ rd.pc = "admin"
    /\ truthy(rd.result)
    /\ Cardinality(DOMAIN rd.person_names) < MaxNames
    /\ \E new_person_name \in NewPersonNames :
          IF new_person_name # <<>> /\ strip(new_person_name) # <<>>
          THEN LET new_id == next_person_id(rd.person_names)
                   person_names == names_set(rd.person_names, str(new_id),
                                             strip(new_person_name))
               IN /\ rd' = [rd EXCEPT
                         !.msg = "added",
                         !.person_names = person_names,
                         !.counts = [noise_count |-> 0,
                                     unique_people |-> Len(rd.people),
                                     named_count |-> labeled_count(rd.people,
                                                                   person_names)]]
                  /\ names' = person_names
          ELSE /\ rd' = [rd EXCEPT !.msg = "enter_name"]
               /\ names' = names
    /\ UNCHANGED <<storage, folder, cache, proc>>

\* The contents of person_names.json before the admin session.
AdminNameFiles ==
    UNION {[K -> {<<"A", "n", "n">>, <<"S", "k">>}] :
              K \in SUBSET {str(c) : c \in LabelValues}}

InitAdmin ==
    /\ storage = IdleStorage
    /\ folder = [exists |-> TRUE, files |-> {}]
    /\ rd = IdleRd
    /\ proc = IdleProc
    /\ names \in AdminNameFiles
    /\ \E cluster_labels \in BoundedSeq(LabelValues, MaxLabels) :
          cache = [exists |-> TRUE,
                   bytes |-> pickle_dump(GalleryDataset(cluster_labels))]

NextAdmin ==
    \/ load_exists
    \/ load_read
    \/ admin_main
    \/ add_person
    \/ rd_reset

SpecAdmin == InitAdmin /\ [][NextAdmin]_vars

\* An 'Add Person' step that stored a name: person_names.json changed.
AddStep == rd.pc = "admin" /\ names' # names

\* The key an 'Add Person' step wrote.
NewKeys == {k \in DOMAIN names' : k \notin DOMAIN names \/ names'[k] # names[k]}

\* The cluster ids of the dataset in the admin session.
SessionClusterIds ==
    {rd.person_clusters[k].cluster_id : k \in 1..Len(rd.person_clusters)}

\* C21: the id 'Add Person' gives is negative, lower than every existing key,
\* and equal to no cluster id of the dataset nor to the noise id -1.
C21_SyntheticIdNoCollision ==
    [][AddStep =>
         \A k \in NewKeys :
            /\ int(k) < 0
            /\ \A e \in DOMAIN names : int(k) < int(e)
            /\ int(k) \notin SessionClusterIds \cup {-1}]_vars

\* C28: 'Add Person' never overwrites: with a name that is not blank the new
\* key was absent, every existing pair is kept and the mapping, in the
\* session and in person_names.json, has exactly one more entry, holding the
\* stripped name, which has no blank at either end; a blank name leaves
\* the mapping as it was.
C28_AddPersonNeverOverwrites ==
    [][(rd.pc = "admin" /\ rd'.pc = "admin") =>
          \/ /\ rd'.msg = "enter_name"
             /\ names' = names
             /\ rd'.person_names = rd.person_names
          \/ /\ rd'.msg = "added"
             /\ \E new_key \in DOMAIN rd'.person_names :
                   /\ new_key \notin DOMAIN rd.person_names
                   /\ DOMAIN rd'.person_names = DOMAIN rd.person_names \cup {new_key}
                   /\ Cardinality(DOMAIN rd'.person_names)
                         = Cardinality(DOMAIN rd.person_names) + 1
                   /\ \A k \in DOMAIN rd.person_names :
                         rd'.person_names[k] = rd.person_names[k]
                   /\ rd'.person_names[new_key] \in {strip(n) : n \in NewPersonNames}
                   /\ rd'.person_names[new_key] # <<>>
                   /\ Head(rd'.person_names[new_key]) # " "
                   /\ names' = rd'.person_names]_vars

\* An entry was added to a mapping that had entries, and a blank name was
\* refused.
C28_Witness ==
    /\ rd.pc = "admin"
    /\ rd.msg = "added"
    /\ Cardinality(DOMAIN names) >= 3
    /\ "-2" \in DOMAIN names

(***************************************************************************)
(* SpecRun: the gallery's runs beside the processing script, which only    *)
(* the operator starts.  A gallery run, once started, goes on to its end   *)
(* (weak fairness); nothing obliges the operator to run the script.        *)
(***************************************************************************)
\* The next run of app.main in a session whose face_data is still None:
\* load_faces_from_cache is called again (lines 396-397).  A session with
\* a dataset keeps it.
gallery_rerun ==
    /\ rd.pc = "shown"
    /\ rd.msg = "not_found"
    /\ rd' = IdleRd
    /\ UNCHANGED <<storage, names, folder, cache, proc>>

GalleryRun ==
    \/ load_exists
    \/ load_read
    \/ load_faces_from_cache
    \/ gallery_rerun

NextRun ==
    \/ script_start
    \/ Detect
    \/ Save
    \/ proc_reset
    \/ GalleryRun

SpecRun == Init /\ [][NextRun]_vars /\ WF_vars(GalleryRun)

\* C22: a run that finds the cache absent leads to the pipeline being run and
\* to the consumer holding a dataset, not to a stop with an error.
C22_AbsentCacheRunsPipeline ==
    (rd.pc = "loaded" /\ rd.how = "absent") ~> (rd.pc = "shown" /\ rd.msg = "loaded")

\* C23: a pipeline run interrupted at any point leaves either no cache file
\* or the previous cache file untouched, never a new incomplete one.
C23_InterruptLeavesOldOrNone ==
    proc.pc = "interrupted" =>
        \/ cache = NoFile
        \/ cache = CompleteFile(OldData)

(***************************************************************************)
(* SpecStorage: list_photos over every backend name, URL-list file, state  *)
(* of the cloud service and photo folder.                                  *)
(***************************************************************************)
\* Most lines of the URL-list file.
MaxLines == 2

\* The lines of a URL-list file: empty, blank, a URL, a padded URL.
UrlLines ==
    {<<>>,
     <<" ">>,
     cloudinary_urls[1],
     <<" ">> \o cloudinary_urls[2] \o <<" ">>}

\* The backend names: the three supported ones and one that is not.
Backends == {"local", "cloudinary", "s3", "ftp"}

\* The cloud service: answering, failing (no keys, no network), or its
\* client package not installed.
ApiStates == {"ok", "fails", "not_installed"}

InitStorage ==
    /\ \E backend \in Backends, api \in ApiStates,
          remote \in SUBSET {"u1.jpg", "u2.jpg", "n.txt"},
          url_list \in {NoUrlList} \cup
                       {[exists |-> TRUE, lines |-> l] : l \in BoundedSeq(UrlLines, MaxLines)} :
          storage = [IdleStorage EXCEPT !.backend = backend, !.api = api,
                                        !.remote = remote, !.url_list = url_list]
    /\ names = NoNames
    /\ folder \in {[exists |-> FALSE, files |-> {}],
                   [exists |-> TRUE, files |-> {}],
                   [exists |-> TRUE, files |-> {"a.jpg", "n.txt"}]}
    /\ cache = NoFile
    /\ proc = IdleProc
    /\ rd = IdleRd

NextStorage == list_photos_call

SpecStorage == InitStorage /\ [][NextStorage]_vars

\* The backend cannot be resolved: its name is unsupported, the local folder
\* is missing, or the cloud listing fails with no URL-list file to read.
ResolutionFails ==
    \/ storage.backend \notin {"local", "cloudinary", "s3"}
    \/ storage.backend = "local" /\ ~folder.exists
    \/ storage.backend = "cloudinary" /\ ~storage.url_list.exists /\ storage.api # "ok"
    \/ storage.backend = "s3" /\ storage.api # "ok"

\* C24: every backend resolution failure ends list_photos with an error that
\* carries a message, never with a returned photo list.
C24_ResolutionFailureRaises ==
    (storage.pc # "idle" /\ ResolutionFails) =>
        (storage.pc = "raised" /\ storage.error # "none")

RECURSIVE Linked(_, _, _, _, _)
Linked(encodings, eps, i, j, n) ==
    \/ i = j
    \/ /\ n > 0
       /\ \E k \in (1..Len(encodings)) \ {i} :
             /\ distance(encodings[i], encodings[k]) <= eps
             /\ Linked(encodings, eps, k, j, n - 1)

\* C27: with a positive eps and at least one face, cluster_faces returns
\* labels; two faces have the same label exactly when a chain links them,
\* and no label is negative.
C27_SameLabelIffChained ==
    /\ (ClusterDone /\ proc.eps > 0) => proc.pc = "assembled"
    /\ proc.pc = "assembled" =>
          LET labels == proc.data.cluster_labels
              encodings == proc.data.face_encodings
          IN /\ \A i \in 1..Len(labels) : labels[i] >= 0
             /\ \A i, j \in 1..Len(labels) :
                   labels[i] = labels[j]
                      <=> Linked(encodings, proc.eps, i, j, Len(encodings))

\* C27 witness: the first and the third face are exactly eps apart and share
\* a label; the second, far from both, has another.
C27_Witness ==
    /\ proc.pc = "assembled"
    /\ proc.eps = TOLERANCE
    /\ Len(proc.data.face_encodings) = 3
    /\ distance(proc.data.face_encodings[1], proc.data.face_encodings[3]) = proc.eps
    /\ Isolated(proc.data.face_encodings, proc.eps, 2)
    /\ proc.data.cluster_labels = <<0, 1, 0>>

\* The session holds the clusters of the dataset it loaded.
ClustersLoaded ==
    /\ rd.pc \in {"shown", "selector", "admin"}
    /\ truthy(rd.result)

\* C26: get_person_clusters partitions the face indices 0..n-1: every index
\* is in exactly one cluster, the one keyed by its label; no cluster is
\* empty, no key occurs twice, and the members of a cluster ascend, so its
\* first member is its lowest index.
C26_ClustersPartitionFaces ==
    ClustersLoaded =>
        LET labels == rd.result.cluster_labels
            clusters == rd.person_clusters
            holds(k, idx) == \E m \in 1..Len(clusters[k].faces) : clusters[k].faces[m] = idx
        IN /\ \A idx \in 0..(Len(labels) - 1) :
                 /\ Cardinality({k \in 1..Len(clusters) : holds(k, idx)}) = 1
                 /\ \A k \in 1..Len(clusters) :
                       holds(k, idx) <=> clusters[k].cluster_id = labels[idx + 1]
           /\ \A k \in 1..Len(clusters) :
                 /\ Len(clusters[k].faces) >= 1
                 /\ \A m \in 1..Len(clusters[k].faces) :
                       clusters[k].faces[m] \in 0..(Len(labels) - 1)
                 /\ \A m \in 1..(Len(clusters[k].faces) - 1) :
                       clusters[k].faces[m] < clusters[k].faces[m + 1]
                 /\ \A m \in 1..Len(clusters[k].faces) :
                       clusters[k].faces[1] <= clusters[k].faces[m]
                 /\ \A l \in 1..Len(clusters) :
                       clusters[l].cluster_id = clusters[k].cluster_id => l = k

\* C26 witness: the labels 1, 0, 1 give the cluster 1 with the faces 0 and 2
\* and then the cluster 0 with the face 1.
C26_Witness ==
    /\ ClustersLoaded
    /\ rd.result.cluster_labels = <<1, 0, 1>>
    /\ rd.person_clusters = <<[cluster_id |-> 1, faces |-> <<0, 2>>],
                              [cluster_id |-> 0, faces |-> <<1>>]>>

(***************************************************************************)
(* SpecUnused: the admin tool's "View Unused Photos" mode over every       *)
(* cached label sequence and contents of person_names.json.                *)
(***************************************************************************)
\* The list skip_keywords of get_used_photos (line 102).
skip_keywords ==
    skip_names \cup
    {<<"n", "o", " ", "i", "d", "e", "a">>,
     <<"n", "e", "e", "d", " ", "t", "o", " ", "r", "e", "v", "i", "e", "w">>}

\* Line 103 of get_used_photos, negated: the cluster's name counts.
used_name_valid(name) ==
    ~(\/ name = <<>>
      \/ str_lower(name) \in skip_keywords
      \/ \E keyword \in skip_keywords : contains(str_lower(name), keyword))

\* Line 162 of show_unused_photos: the name may be used as a tag.
tag_name_valid(name) ==
    /\ name # <<>>
    /\ str_lower(name) \notin skip_names
    /\ ~contains(str_lower(name), <<"n", "o", " ", "i", "d", "e", "a">>)
    /\ ~contains(str_lower(name),
                 <<"n", "e", "e", "d", " ", "t", "o", " ", "r", "e", "v", "i", "e", "w">>)

\* The sample images left out of the lists (lines 110, 139).
is_sample(photo_url) ==
    photo_url[2] \in {"sample.jpg.jpg", "cld-sample-2.jpg.jpg", "cld-sample-5.jpg.jpg"}

\* admin_labeling.get_used_photos: the photos of the faces of the clusters
\* with person_id >= 0 and a name that counts.
get_used_photos(face_data, person_clusters, person_names) ==
    LET valid == {k \in 1..Len(person_clusters) :
                     /\ person_clusters[k].cluster_id >= 0
                     /\ used_name_valid(names_get(person_names,
                            str(person_clusters[k].cluster_id)))}
        photos(k) == {face_data.face_to_photo_map[person_clusters[k].faces[m] + 1].photo_path :
                         m \in 1..Len(person_clusters[k].faces)}
    IN {photo_url \in UNION {photos(k) : k \in valid} : ~is_sample(photo_url)}

\* admin_labeling.get_all_photos: the stripped lines of cloudinary_urls.txt,
\* [] when the file is missing.
get_all_photos(url_list) ==
    IF url_list.exists THEN stripped_lines(url_list.lines) ELSE <<>>

\* sorted(set(valid_names)): by code points.
RECURSIVE sorted_names(_)
sorted_names(S) ==
    IF S = {} THEN <<>>
    ELSE LET m == CHOOSE a \in S : \A b \in S : str_le(a, b)
         IN <<m>> \o sorted_names(S \ {m})

\* admin_labeling.main in the mode "View Unused Photos", after its
\* load_cache call: show_unused_photos with the used and the unused photos
\* and, when there are unused photos, the names offered as tags.
show_unused_photos ==
    /\ rd.pc = "loaded"
    /\ IF truthy(rd.result)
       THEN LET person_clusters == get_person_clusters(rd.result.cluster_labels)
                all_photos == get_all_photos(storage.url_list)
                used_photos == get_used_photos(rd.result, person_clusters, names)
                unused_photos ==
                    SelectSeq(all_photos,
                              LAMBDA p : p \notin used_photos /\ ~is_sample(p))
            IN rd' = [rd EXCEPT
                   !.pc = "unused",
                   !.msg = IF unused_photos = <<>> THEN "all_used" ELSE "tagging",
                   !.person_clusters = person_clusters,
                   !.person_names = names,
                   !.used_photos = used_photos,
                   !.unused_photos = unused_photos,
                   !.valid_names =
                       IF unused_photos = <<>> THEN <<>>
                       ELSE sorted_names({names[pid] : pid \in
                               {k \in DOMAIN names : tag_name_valid(names[k])}})]
       ELSE rd' = [rd EXCEPT !.pc = "unused", !.msg = "not_found"]
    /\ UNCHANGED <<storage, names, folder, cache, proc>>

\* The admin leaves the page.
unused_reset ==
    /\ rd.pc = "unused"
    /\ rd' = IdleRd
    /\ UNCHANGED <<storage, names, folder, cache, proc>>

\* The photo of the i-th face of a dataset drawn for SpecUnused: every face
\* has a photo of its own.
FacePhoto(i) == <<UrlPrefix, "face" \o ToString(i) \o ".jpg">>

\* A dataset with the cluster labels `cluster_labels`, one face per photo.
UnusedDataset(cluster_labels) ==
    [face_encodings |-> [i \in 1..Len(cluster_labels) |-> 0],
     face_to_photo_map |-> [i \in 1..Len(cluster_labels) |->
                               [photo_path |-> FacePhoto(i), location |-> 1]],
     cluster_labels |-> cluster_labels,
     total_photos |-> Len(cluster_labels) + 1,
     total_faces |-> Len(cluster_labels)]

\* The names of person_names.json: "", "Sk", "no idea", "Ask" and "Ann".
TagNames ==
    {<<>>,
     <<"S", "k">>,
     <<"n", "o", " ", "i", "d", "e", "a">>,
     <<"A", "s", "k">>,
     <<"A", "n", "n">>}

\* cloudinary_urls.txt lists the photos of the faces and one photo without
\* a face.
InitUnused ==
    /\ \E cluster_labels \in BoundedSeq(LabelValues, MaxLabels) :
          /\ cache = [exists |-> TRUE,
                      bytes |-> pickle_dump(UnusedDataset(cluster_labels))]
          /\ storage = [IdleStorage EXCEPT !.url_list =
                 [exists |-> TRUE,
                  lines |-> [i \in 1..Len(cluster_labels) |-> FacePhoto(i)]
                            \o <<cloudinary_urls[2]>>]]
    /\ names \in UNION {[K -> TagNames] : K \in SUBSET {str(c) : c \in LabelValues}}
    /\ folder = [exists |-> TRUE, files |-> {}]
    /\ proc = IdleProc
    /\ rd = IdleRd

NextUnused ==
    \/ load_exists
    \/ load_read
    \/ show_unused_photos
    \/ unused_reset

SpecUnused == InitUnused /\ [][NextUnused]_vars

\* C29: the three name filters agree: for every cluster of the dataset with
\* an id that is not negative, the gallery's get_person_name gives a name
\* exactly when get_used_photos counts the cluster's photos as used, and
\* exactly when the name is among the tag names of show_unused_photos.
C29_NameFiltersAgree ==
    (rd.pc = "unused" /\ rd.msg = "tagging") =>
        \A k \in 1..Len(rd.person_clusters) :
            LET pid == rd.person_clusters[k].cluster_id
                name == names_get(rd.person_names, str(pid))
                in_gallery == get_person_name(pid, rd.person_names) # None
                in_used == \A m \in 1..Len(rd.person_clusters[k].faces) :
                              FacePhoto(rd.person_clusters[k].faces[m] + 1)
                                  \in rd.used_photos
                in_tags == \E t \in 1..Len(rd.valid_names) : rd.valid_names[t] = name
            IN pid >= 0 => /\ in_gallery <=> in_used
                           /\ in_used <=> in_tags

\* C30: a call of is_cache_valid leaves the cache file as it is, and with
\* no cache file, with a cache file that does not unpickle, or with a photo
\* folder that cannot be listed, it returns False and does not raise.
C30_InvalidWithoutRaising ==
    [][CheckStep =>
          /\ cache' = cache
          /\ rd'.msg = "returned"
          /\ (~cache.exists \/ ~Loadable(cache) \/ ~folder.exists) => ~rd'.valid]_vars

\* C30 witness: with a loadable cache and the photo folder gone,
\* is_cache_valid has returned False.
C30_Witness ==
    /\ rd.pc = "validated"
    /\ rd.msg = "returned"
    /\ ~rd.valid
    /\ Loadable(cache)
    /\ ~folder.exists

====
